---- MODULE Spec2Model ----
(***************************************************************************)
(* The in-memory, fixed-window rate limiter of src/app/api/chat/route.ts:  *)
(* the process-wide table rateLimitMap, the amortised expiry sweep         *)
(* cleanupRateLimitMap and the admission check checkRateLimit.             *)
(*                                                                         *)
(* Time is Date.now() in milliseconds, counted from module initialisation. *)
(* The clock is non-decreasing and moves on a grid of TickMs.              *)
(***************************************************************************)
EXTENDS Integers, FiniteSets, Sequences, TLC

\* ---------------------------------------------------------------- bounds
\* the clock grid: TicksPerWindow clock ticks make one rate-limit window
TicksPerWindow == 1
\* the clock stops at MaxTicks ticks after module initialisation
MaxTicks == 11
\* the clock of the side-by-side runs stops at MaxTicksIso ticks
MaxTicksIso == 7
\* the clock of the request handler runs stops at MaxTicksHttp ticks
MaxTicksHttp == 2
\* header values have at most MaxHdrLen characters
MaxHdrLen == 3
\* request handlers that can be in flight at once
NumHandlers == 2
\* clock ticks explored with handlers in flight
MaxTicksConc == 2
\* clock ticks explored with the admission times recorded
MaxTicksBurst == 2
\* clock ticks explored with the limiter beside the one without the sweep
MaxTicksSweep == 7
\* the splash screen is followed for MaxSplashSteps steps of SplashStepMs
MaxSplashSteps == 45
SplashStepMs == 100
\* clicks on "Click to skip" explored
MaxDismissClicks == 2

\* ------------------------------------------------------ program constants
RATE_LIMIT_WINDOW_MS == 60 * 1000
MAX_REQUESTS_PER_WINDOW == 10
CLEANUP_INTERVAL_MS == 5 * 60 * 1000

TickMs == RATE_LIMIT_WINDOW_MS \div TicksPerWindow
MaxNow == MaxTicks * TickMs
MaxNowIso == MaxTicksIso * TickMs
MaxNowHttp == MaxTicksHttp * TickMs
MaxNowConc == MaxTicksConc * TickMs

\* client keys: the sentinel of a request without address headers, and the
\* empty string
Keys == {"unknown", ""}

VARIABLES
    now,           \* the value Date.now() returns
    rateLimitMap,  \* Map<string, {count, resetAt}>: a function on the keys present
    lastCleanup,   \* time of the last sweep (module initialisation at first)
    last,          \* history: the checkRateLimit call that has just returned
    win,           \* history: per key, the window last granted and its admissions
    sweepAt,       \* history: the times of the last two sweeps
    obs,           \* the key followed by the reference limiter
    refMap,        \* reference limiter that sees only the calls for obs
    refLastCleanup,
    refLast,
    http,          \* the POST request that has just been answered, and its answer
    handlers,      \* the request handlers in flight and where each is suspended
    splash,        \* the state of the SplashScreen component and its timers
    admitted,      \* history: the times of the calls for obs that were allowed
    env,           \* process.env: the credential and the configured source lists
    call,          \* the tool call in progress, or the one that has just ended
    wire           \* the HTTP requests the tool call has sent to the search API

limiterVars == <<rateLimitMap, lastCleanup, last, win, sweepAt>>
refVars == <<refMap, refLastCleanup, refLast>>
toolVars == <<env, call, wire>>
sideVars == <<handlers, splash, admitted>>

vars == <<now, rateLimitMap, lastCleanup, last, win, sweepAt,
          obs, refMap, refLastCleanup, refLast, http, handlers, splash,
          admitted,
          env, call, wire>>

EmptyMap == [k \in {} |-> [count |-> 0, resetAt |-> 0]]

NoCall == [called |-> FALSE]

\* ------------------------------------------------------------ the program

\* the loop of cleanupRateLimitMap: delete every entry with now > resetAt
SweepSkewed(map, t) ==
    [k \in {x \in DOMAIN map : ~(t >= map[x].resetAt)} |-> map[k]]

SweepOne(map, t) ==
    LET expired == {x \in DOMAIN map : t > map[x].resetAt}
        victim == IF expired = {} THEN {} ELSE {CHOOSE x \in expired : TRUE}
    IN [k \in (DOMAIN map) \ victim |-> map[k]]

Sweep(map, t) ==
    [k \in {x \in DOMAIN map : ~(t > map[x].resetAt)} |-> map[k]]

\* cleanupRateLimitMap() run at Date.now() = t
cleanupNoStamp(map, lc, t) ==
    IF t - lc < CLEANUP_INTERVAL_MS
    THEN [map |-> map, lastCleanup |-> lc, swept |-> FALSE]
    ELSE [map |-> Sweep(map, t), lastCleanup |-> lc, swept |-> TRUE]

cleanupRateLimitMap(map, lc, t) ==
    IF t - lc < CLEANUP_INTERVAL_MS
    THEN [map |-> map, lastCleanup |-> lc, swept |-> FALSE]
    ELSE [map |-> Sweep(map, t), lastCleanup |-> t, swept |-> TRUE]

\* the three returns of checkRateLimit, on the table m left by the cleanup
FreshKeepsCount(m, ip, t) ==
    LET n == IF ip \in DOMAIN m THEN m[ip].count + 1 ELSE 1
    IN [map |-> (ip :> [count |-> n, resetAt |-> t + RATE_LIMIT_WINDOW_MS]) @@ m,
        ret |-> [allowed |-> TRUE,
                 remaining |-> MAX_REQUESTS_PER_WINDOW - n,
                 resetAt |-> t + RATE_LIMIT_WINDOW_MS]]

Fresh(m, ip, t) ==
    [map |-> (ip :> [count |-> 1, resetAt |-> t + RATE_LIMIT_WINDOW_MS]) @@ m,
     ret |-> [allowed |-> TRUE,
              remaining |-> MAX_REQUESTS_PER_WINDOW - 1,
              resetAt |-> t + RATE_LIMIT_WINDOW_MS]]

RejectExtends(m, ip, t) ==
    [map |-> [m EXCEPT ![ip].resetAt = t + RATE_LIMIT_WINDOW_MS],
     ret |-> [allowed |-> FALSE, remaining |-> 0,
              resetAt |-> t + RATE_LIMIT_WINDOW_MS]]

Reject(m, ip, t) ==
    [map |-> m,
     ret |-> [allowed |-> FALSE, remaining |-> 0, resetAt |-> m[ip].resetAt]]

AdmitStale(m, ip, t) ==
    [map |-> [m EXCEPT ![ip].count = @ + 1],
     ret |-> [allowed |-> TRUE,
              remaining |-> MAX_REQUESTS_PER_WINDOW - m[ip].count,
              resetAt |-> m[ip].resetAt]]

Admit(m, ip, t) ==
    [map |-> [m EXCEPT ![ip].count = @ + 1],
     ret |-> [allowed |-> TRUE,
              remaining |-> MAX_REQUESTS_PER_WINDOW - (m[ip].count + 1),
              resetAt |-> m[ip].resetAt]]

\* the ceiling test of checkRateLimit
ExhaustedOffByOne(e) == e.count > MAX_REQUESTS_PER_WINDOW

Exhausted(e) == e.count >= MAX_REQUESTS_PER_WINDOW

\* the window test of checkRateLimit
ExpiredEarly(m, ip, t) == ip \notin DOMAIN m \/ t >= m[ip].resetAt

Expired(m, ip, t) == ip \notin DOMAIN m \/ t > m[ip].resetAt

\* the table key of a client: rateLimitMap.get(ip), rateLimitMap.set(ip, ...)
KeyShared(ip) == "unknown"

KeyOf(ip) == ip

\* checkRateLimit(ip): the cleanup reads the clock at t1, the check at t2
checkRateLimit(map, lc, ip, t1, t2) ==
    LET c == cleanupRateLimitMap(map, lc, t1)
        k == KeyOf(ip)
        r == IF Expired(c.map, k, t2) THEN Fresh(c.map, k, t2)
             ELSE IF Exhausted(c.map[k]) THEN Reject(c.map, k, t2)
             ELSE Admit(c.map, k, t2)
    IN [map |-> r.map, lastCleanup |-> c.lastCleanup, ret |-> r.ret,
        swept |-> c.swept, mid |-> c.map]

\* checkRateLimit with the call of cleanupRateLimitMap taken out
checkWithoutSweep(map, lc, ip, t1, t2) ==
    LET k == KeyOf(ip)
        r == IF Expired(map, k, t2) THEN Fresh(map, k, t2)
             ELSE IF Exhausted(map[k]) THEN Reject(map, k, t2)
             ELSE Admit(map, k, t2)
    IN [map |-> r.map, lastCleanup |-> lc, ret |-> r.ret,
        swept |-> FALSE, mid |-> map]

\* ----------------------------------------------------- the request handler

\* a string is a sequence of characters; an optional value is <<>> or <<v>>
HdrChars == {"a", ",", " "}

Unknown == <<"u", "n", "k", "n", "o", "w", "n">>

RECURSIVE TrimStart(_)
TrimStart(s) == IF s # <<>> /\ Head(s) = " " THEN TrimStart(Tail(s)) ELSE s

RECURSIVE TrimEnd(_)
TrimEnd(s) ==
    IF s # <<>> /\ s[Len(s)] = " " THEN TrimEnd(SubSeq(s, 1, Len(s) - 1)) ELSE s

\* String.prototype.trim
Trim(s) == TrimEnd(TrimStart(s))

\* s.split(",")[0]
FirstSegment(s) ==
    LET commas == {i \in 1 .. Len(s) : s[i] = ","}
    IN IF commas = {} THEN s
       ELSE SubSeq(s, 1, (CHOOSE i \in commas : \A j \in commas : i <= j) - 1)

\* the values Headers.get returns: no leading or trailing white space
HdrValues ==
    {s \in UNION {[1 .. n -> HdrChars] : n \in 0 .. MaxHdrLen} : Trim(s) = s}

XffOpts == {<<>>} \cup {<<v>> : v \in HdrValues}
XriOpts == {<<>>, <<(<<>>)>>, <<(<<"b">>)>>}

\* req.headers.get("x-forwarded-for")?.split(",")[0]?.trim()
\*   ?? req.headers.get("x-real-ip") ?? "unknown"
ClientKey(xff, xri) ==
    IF xff # <<>> THEN Trim(FirstSegment(xff[1]))
    ELSE IF xri # <<>> THEN xri[1]
    ELSE Unknown

HttpKeys == {ClientKey(x, y) : x \in XffOpts, y \in XriOpts}

\* Math.ceil(a / b) for a >= 0, b > 0
CeilDiv(a, b) == (a + b - 1) \div b

NoExchange == [handled |-> FALSE]

Exchange(xff, xri, status, headers, limiter, bodyRead, streamed) ==
    [handled |-> TRUE, xff |-> xff, xri |-> xri, status |-> status,
     headers |-> headers, limiter |-> limiter, bodyRead |-> bodyRead,
     streamed |-> streamed]

\* the first statement of POST: the unconditional 503 return
MaintenanceOff == FALSE

MaintenanceReturn == TRUE

ServiceUnavailable(xff, xri) ==
    Exchange(xff, xri, 503,
             [h \in {"Content-Type", "Retry-After"} |->
                 IF h = "Content-Type" THEN "application/json" ELSE "3600"],
             <<>>, FALSE, FALSE)

\* the 429 answer to a request the limiter refused, Date.now() being t
TooManyRequests(xff, xri, ret, t) ==
    Exchange(xff, xri, 429,
             [h \in {"Content-Type", "X-RateLimit-Limit", "X-RateLimit-Remaining",
                     "X-RateLimit-Reset", "Retry-After"} |->
                 CASE h = "Content-Type" -> "application/json"
                   [] h = "X-RateLimit-Limit" -> ToString(MAX_REQUESTS_PER_WINDOW)
                   [] h = "X-RateLimit-Remaining" -> "0"
                   [] h = "X-RateLimit-Reset" -> ToString(CeilDiv(ret.resetAt, 1000))
                   [] h = "Retry-After" -> ToString(CeilDiv(ret.resetAt - t, 1000))],
             <<ret>>, FALSE, FALSE)

\* req.json() is read and streamText is started with the tool set
Streamed(xff, xri, ret) ==
    Exchange(xff, xri, 200,
             [h \in {"Content-Type"} |-> "text/event-stream"],
             <<ret>>, TRUE, TRUE)

\* ---------------------------------------------------------- the tool proxy
\* src/lib/nia-tools.ts holds the tool sets of the three deployments; a tool
\* that exists in more than one is named deployment/tool.
\* An identifier is a sequence of path segments; <<>> is the empty string.

\* parseCsvEnv: v is unset (<<>>) or <<the comma-separated pieces, trimmed>>;
\* the empty pieces are dropped
parseCsvEnv(v) ==
    IF v = <<>> THEN <<>> ELSE SelectSeq(v[1], LAMBDA piece : piece # <<>>)

getChromiumDocsSources(e) == parseCsvEnv(e.docs)
getChromiumRepoSources(e) == parseCsvEnv(e.repos)
getEpsteinArchiveSources(e) == parseCsvEnv(e.archive)
getEpsteinBiographicalSources(e) == parseCsvEnv(e.biographical)
getAllEpsteinSourcesBioFirst(e) ==
    getEpsteinBiographicalSources(e) \o getEpsteinArchiveSources(e)

getAllEpsteinSources(e) ==
    getEpsteinArchiveSources(e) \o getEpsteinBiographicalSources(e)

\* a function that returns a value or throws an Error with a message
Value(v) == [ok |-> TRUE, val |-> v]
Thrown(text, detail) == [ok |-> FALSE, err |-> [text |-> text, detail |-> detail]]

getDefaultDocSourceId(e) ==
    IF Len(getChromiumDocsSources(e)) = 0
    THEN Thrown("CHROMIUM_DOCS_SOURCES not configured", <<>>)
    ELSE Value(getChromiumDocsSources(e)[1])

getDefaultArchiveSource(e) ==
    IF Len(getEpsteinArchiveSources(e)) = 0
    THEN Thrown("NIA_EPSTEIN_ARCHIVE_SOURCES not configured", <<>>)
    ELSE Value(getEpsteinArchiveSources(e)[1])

\* getSourceId of the Naval deployment: !sourceId holds for unset and for ""
getSourceId(e) ==
    IF e.naval = <<>> \/ e.naval[1] = <<>>
    THEN Thrown("NAVAL_NIA_SOURCE environment variable is not set", <<>>)
    ELSE Value(e.naval[1])

\* sourceId || getDefault...(): a missing or empty identifier takes the default
OrDefaultAlways(id, default) == default

OrDefault(id, default) ==
    IF id # <<>> /\ id[1] # <<>> THEN Value(id[1]) ELSE default

\* `chromium/chromium/tree/main/${s}`
RepoIdOfBare(s) == s

RepoIdOf(s) == <<"chromium", "chromium", "tree", "main">> \o s

\* r.split('/').pop()
LastSegment(r) == IF r = <<>> THEN "" ELSE r[Len(r)]

Includes(list, x) == \E i \in 1 .. Len(list) : list[i] = x

\* subtrees.map(s => `chromium/chromium/tree/main/${s}`)
RepoIdsOf(subtrees) == [i \in 1 .. Len(subtrees) |-> RepoIdOf(subtrees[i])]

\* repos.map(r => r.split('/').pop())
LastSegments(repos) == [i \in 1 .. Len(repos) |-> LastSegment(repos[i])]

\* JSON.stringify of an object whose fields are <<>> (undefined) or <<value>>:
\* the undefined fields are left out
JsonStringifyNulls(obj) ==
    [f \in DOMAIN obj |-> IF obj[f] = <<>> THEN "null" ELSE obj[f][1]]

JsonStringify(obj) ==
    [f \in {g \in DOMAIN obj : obj[g] # <<>>} |-> obj[f][1]]

\* niaFetch: the request fetch is given, or the Error thrown
niaFetchNoCheck(e, method, endpoint, body) ==
    Value([method |-> method, endpoint |-> endpoint, body |-> body,
           headers |-> [h \in {"Authorization", "Content-Type"} |->
                           IF h = "Authorization"
                           THEN <<"Bearer ">> \o (IF e.apiKey = <<>>
                                                  THEN <<"undefined">> ELSE e.apiKey)
                           ELSE <<"application/json">>]])

niaFetch(e, method, endpoint, body) ==
    IF e.apiKey = <<>> \/ e.apiKey[1] = ""
    THEN Thrown("NIA_API_KEY environment variable is not set", <<>>)
    ELSE Value([method |-> method, endpoint |-> endpoint, body |-> body,
                headers |-> [h \in {"Authorization", "Content-Type"} |->
                                IF h = "Authorization"
                                THEN <<"Bearer ">> \o e.apiKey
                                ELSE <<"application/json">>]])

\* fetch puts one request on the wire
SendTwice(sent, request) == Append(Append(sent, request), request)

Send(sent, request) == Append(sent, request)

\* the endpoint a tool hands to niaFetch: prefix, an identifier (none: <<>>)
\* given raw or through encodeURIComponent, suffix, URLSearchParams (none: <<>>)
Endpoint(prefix, id, encoded, suffix, params) ==
    [prefix |-> prefix, id |-> id, encoded |-> encoded, suffix |-> suffix,
     params |-> params]

Plain(path) == Endpoint(path, <<>>, FALSE, "", <<>>)

\* what a tool hands to niaFetch; a request without options is a GET without body
Request(method, endpoint, body) ==
    [method |-> method, endpoint |-> endpoint, body |-> body]

\* a string argument that is given and not ""
TruthyStr(o) == o # <<>> /\ o[1] # ""

UserMessage(query) == <<[role |-> "user", content |-> query[1]]>>

\* ---- the input schemas: per field the zod range and default, <<>> for none
Field(min, max, default) == [min |-> min, max |-> max, default |-> default]
Free == Field(<<>>, <<>>, <<>>)
Default(v) == Field(<<>>, <<>>, <<v>>)
Range(lo, hi) == Field(<<lo>>, <<hi>>, <<>>)
RangeDefault(lo, hi, v) == Field(<<lo>>, <<hi>>, <<v>>)

GrepOptions ==
    [contextLines |-> Range(0, 10),
     linesAfter |-> Range(0, 20),
     linesBefore |-> Range(0, 20),
     caseSensitive |-> Default(FALSE),
     wholeWord |-> Default(FALSE),
     fixedString |-> Default(FALSE),
     maxMatchesPerFile |-> RangeDefault(1, 100, 10),
     maxTotalMatches |-> RangeDefault(1, 1000, 100),
     outputMode |-> Default("content"),
     highlight |-> Default(FALSE)]

RepoGrepOptions ==
    GrepOptions @@ [includeLineNumbers |-> Default(TRUE),
                    groupByFile |-> Default(TRUE),
                    exhaustive |-> Default(TRUE)]

WebSearchOptions ==
    [query |-> Free, numResults |-> RangeDefault(1, 10, 5), category |-> Free]

ChromiumTools ==
    {"searchChromium", "browseChromiumDocs", "listChromiumDocsDirectory",
     "readChromiumDoc", "grepChromiumDocs", "grepChromiumCode",
     "chromium/webSearch", "chromium/getSourceContent"}

EpsteinTools ==
    {"searchArchive", "browseArchive", "readArchiveDoc", "grepArchive",
     "epstein/webSearch", "epstein/getSourceContent"}

NavalTools ==
    {"searchEssays", "browseEssays", "listDirectory", "readEssay", "grepEssays",
     "naval/webSearch", "naval/getSourceContent"}

Tools == ChromiumTools \cup EpsteinTools \cup NavalTools

GrepTools == {"grepChromiumDocs", "grepChromiumCode", "grepArchive", "grepEssays"}

SearchTools == {"searchChromium", "searchArchive", "searchEssays"}

inputSchema(tool) ==
    CASE tool = "searchChromium" ->
             [query |-> Free, subtrees |-> Free, includeDocs |-> Default(TRUE)]
      [] tool = "browseChromiumDocs" -> [sourceId |-> Free]
      [] tool = "listChromiumDocsDirectory" ->
             [path |-> Default("/"), sourceId |-> Free]
      [] tool = "readChromiumDoc" -> [path |-> Free, sourceId |-> Free]
      [] tool = "grepChromiumDocs" ->
             [pattern |-> Free, path |-> Default("/"), sourceId |-> Free]
                 @@ GrepOptions
      [] tool = "grepChromiumCode" ->
             [pattern |-> Free, subtree |-> Free, path |-> Default("")]
                 @@ RepoGrepOptions
      [] tool \in {"chromium/webSearch", "naval/webSearch"} -> WebSearchOptions
      [] tool \in {"chromium/getSourceContent", "naval/getSourceContent"} ->
             [sourceType |-> Free, sourceIdentifier |-> Free, metadata |-> Free]
      [] tool = "searchArchive" -> [query |-> Free, sourceType |-> Default("all")]
      [] tool = "browseArchive" -> [repoId |-> Free]
      [] tool \in {"readArchiveDoc", "epstein/getSourceContent"} ->
             [path |-> Free, repoId |-> Free]
      [] tool = "grepArchive" ->
             [pattern |-> Free, path |-> Default(""), repoId |-> Free]
                 @@ RepoGrepOptions
      [] tool = "epstein/webSearch" ->
             WebSearchOptions @@ [daysBack |-> Free, findSimilarTo |-> Free]
      [] tool = "searchEssays" -> [query |-> Free]
      [] tool = "browseEssays" -> [none |-> Free]
      [] tool = "listDirectory" -> [path |-> Default("/")]
      [] tool = "readEssay" -> [path |-> Free]
      [] tool = "grepEssays" ->
             [pattern |-> Free, path |-> Default("/")] @@ GrepOptions

\* a given number below the field's .min or above its .max
OutOfRange(field, v) ==
    /\ v # <<>>
    /\ \/ field.min # <<>> /\ v[1] < field.min[1]
       \/ field.max # <<>> /\ v[1] > field.max[1]

\* The runtime parses the arguments against inputSchema before execute runs:
\* a number outside its range fails the call, an absent field takes its default.
ValidateLax(tool, raw) ==
    Value([f \in DOMAIN inputSchema(tool) |->
              IF raw[f] = <<>> THEN inputSchema(tool)[f].default ELSE raw[f]])

Validate(tool, raw) ==
    LET schema == inputSchema(tool)
        invalid == {f \in DOMAIN schema : OutOfRange(schema[f], raw[f])}
    IN IF invalid # {}
       THEN Thrown("Invalid input for tool", invalid)
       ELSE Value([f \in DOMAIN schema |->
                      IF raw[f] = <<>> THEN schema[f].default ELSE raw[f]])

\* ---- the request bodies of the grep tools
GrepBody(a, path) ==
    [pattern |-> a.pattern,
     context_lines |-> IF a.contextLines = <<>> THEN <<3>> ELSE a.contextLines,
     path |-> path,
     A |-> a.linesAfter,
     B |-> a.linesBefore,
     case_sensitive |-> a.caseSensitive,
     whole_word |-> a.wholeWord,
     fixed_string |-> a.fixedString,
     max_matches_per_file |-> a.maxMatchesPerFile,
     max_total_matches |-> a.maxTotalMatches,
     output_mode |-> IF TruthyStr(a.outputMode) THEN a.outputMode ELSE <<>>,
     highlight |-> a.highlight]

RepoGrepBody(a, path) ==
    GrepBody(a, path) @@ [include_line_numbers |-> a.includeLineNumbers,
                          group_by_file |-> a.groupByFile,
                          exhaustive |-> a.exhaustive]

\* ---- the Chromium tools
searchChromium(a, e) ==
    LET allDocs == getChromiumDocsSources(e)
        allRepos == getChromiumRepoSources(e)
        scoped == a.subtrees # <<>> /\ Len(a.subtrees[1]) > 0
        selectedRepos == IF scoped THEN RepoIdsOf(a.subtrees[1]) ELSE allRepos
        invalid == SelectSeq(selectedRepos, LAMBDA r : ~Includes(allRepos, r))
        selectedDocs == IF a.includeDocs[1] THEN allDocs ELSE <<>>
        body == [messages |-> <<UserMessage(a.query)>>,
                 search_mode |->
                     <<IF Len(selectedDocs) > 0 /\ Len(selectedRepos) > 0
                       THEN "unified"
                       ELSE IF Len(selectedRepos) > 0 THEN "repositories"
                       ELSE "sources">>,
                 include_sources |-> <<TRUE>>,
                 data_sources |->
                     IF Len(selectedDocs) > 0 THEN <<selectedDocs>> ELSE <<>>,
                 repositories |->
                     IF Len(selectedRepos) > 0 THEN <<selectedRepos>> ELSE <<>>]
    IN IF scoped /\ Len(invalid) > 0
       THEN Thrown("Invalid subtrees",
                   [given |-> LastSegments(invalid),
                    available |-> LastSegments(allRepos)])
       ELSE Value(Request("POST", Plain("/query"), <<JsonStringify(body)>>))

browseChromiumDocs(a, e) ==
    LET resolvedSourceId == OrDefault(a.sourceId, getDefaultDocSourceId(e))
    IN IF ~resolvedSourceId.ok THEN resolvedSourceId
       ELSE Value(Request("GET",
                Endpoint("/data-sources/", <<resolvedSourceId.val>>, FALSE,
                         "/tree", <<>>),
                <<>>))

listChromiumDocsDirectory(a, e) ==
    LET resolvedSourceId == OrDefault(a.sourceId, getDefaultDocSourceId(e))
    IN IF ~resolvedSourceId.ok THEN resolvedSourceId
       ELSE Value(Request("GET",
                Endpoint("/data-sources/", <<resolvedSourceId.val>>, FALSE,
                         "/ls", <<[path |-> a.path[1]]>>),
                <<>>))

readChromiumDoc(a, e) ==
    LET resolvedSourceId == OrDefault(a.sourceId, getDefaultDocSourceId(e))
    IN IF ~resolvedSourceId.ok THEN resolvedSourceId
       ELSE Value(Request("GET",
                Endpoint("/data-sources/", <<resolvedSourceId.val>>, FALSE,
                         "/read", <<[path |-> a.path[1]]>>),
                <<>>))

grepChromiumDocs(a, e) ==
    LET resolvedSourceId == OrDefault(a.sourceId, getDefaultDocSourceId(e))
        path == IF TruthyStr(a.path) /\ a.path[1] # "/" THEN a.path ELSE <<>>
    IN IF ~resolvedSourceId.ok THEN resolvedSourceId
       ELSE Value(Request("POST",
                Endpoint("/data-sources/", <<resolvedSourceId.val>>, FALSE,
                         "/grep", <<>>),
                <<JsonStringify(GrepBody(a, path))>>))

grepChromiumCode(a, e) ==
    LET resolvedSubtree ==
            IF a.subtree # <<>> /\ a.subtree[1] # <<>>
            THEN a.subtree[1] ELSE <<"base">>
        repoId == RepoIdOf(resolvedSubtree)
        repos == getChromiumRepoSources(e)
        path == IF TruthyStr(a.path) THEN a.path ELSE <<>>
    IN IF Len(repos) > 0 /\ ~Includes(repos, repoId)
       THEN Thrown("Subtree not found",
                   [given |-> <<LastSegment(repoId)>>,
                    available |-> LastSegments(repos)])
       ELSE Value(Request("POST",
                Endpoint("/repositories/", <<repoId>>, TRUE, "/grep", <<>>),
                <<JsonStringify(RepoGrepBody(a, path))>>))

webSearchChromium(a, e) ==
    Value(Request("POST", Plain("/web-search"),
        <<JsonStringify(
            [query |-> a.query,
             num_results |-> a.numResults,
             category |-> IF TruthyStr(a.category) THEN a.category ELSE <<>>])>>))

getSourceContentChromium(a, e) ==
    Value(Request("POST", Plain("/sources/content"),
        <<JsonStringify(
            [source_type |-> a.sourceType,
             source_identifier |-> a.sourceIdentifier,
             metadata |-> a.metadata])>>))

\* ---- the Epstein tools
searchArchive(a, e) ==
    LET sourceType == a.sourceType[1]
        repos == IF sourceType = "archive" THEN getEpsteinArchiveSources(e)
                 ELSE IF sourceType = "biographical"
                      THEN getEpsteinBiographicalSources(e)
                 ELSE getAllEpsteinSources(e)
    IN IF Len(repos) = 0
       THEN Thrown("No Epstein sources configured. Check your .env",
                   [given |-> <<sourceType>>, available |-> <<>>])
       ELSE Value(Request("POST", Plain("/search/query"),
                <<JsonStringify(
                    [messages |-> <<UserMessage(a.query)>>,
                     search_mode |-> <<"repositories">>,
                     include_sources |-> <<TRUE>>,
                     repositories |-> <<repos>>])>>))

browseArchive(a, e) ==
    LET resolvedRepoId == OrDefault(a.repoId, getDefaultArchiveSource(e))
    IN IF ~resolvedRepoId.ok THEN resolvedRepoId
       ELSE Value(Request("GET",
                Endpoint("/repositories/", <<resolvedRepoId.val>>, TRUE,
                         "/tree", <<>>),
                <<>>))

readArchiveDoc(a, e) ==
    LET resolvedRepoId == OrDefault(a.repoId, getDefaultArchiveSource(e))
    IN IF ~resolvedRepoId.ok THEN resolvedRepoId
       ELSE Value(Request("GET",
                Endpoint("/repositories/", <<resolvedRepoId.val>>, TRUE,
                         "/content", <<[path |-> a.path[1]]>>),
                <<>>))

grepArchive(a, e) ==
    LET resolvedRepoId == OrDefault(a.repoId, getDefaultArchiveSource(e))
        path == IF TruthyStr(a.path) THEN a.path ELSE <<>>
    IN IF ~resolvedRepoId.ok THEN resolvedRepoId
       ELSE Value(Request("POST",
                Endpoint("/repositories/", <<resolvedRepoId.val>>, TRUE,
                         "/grep", <<>>),
                <<JsonStringify(RepoGrepBody(a, path))>>))

webSearchEpstein(a, e) ==
    Value(Request("POST", Plain("/search/web"),
        <<JsonStringify(
            [query |-> a.query,
             num_results |-> a.numResults,
             category |-> IF TruthyStr(a.category) THEN a.category ELSE <<>>,
             days_back |-> a.daysBack,
             find_similar_to |->
                 IF TruthyStr(a.findSimilarTo) THEN a.findSimilarTo ELSE <<>>])>>))

getSourceContentEpstein(a, e) ==
    LET resolvedRepoId == OrDefault(a.repoId, getDefaultArchiveSource(e))
    IN IF ~resolvedRepoId.ok THEN resolvedRepoId
       ELSE Value(Request("GET",
                Endpoint("/repositories/", <<resolvedRepoId.val>>, TRUE,
                         "/content", <<[path |-> a.path[1]]>>),
                <<>>))

\* ---- the Naval tools
searchEssays(a, e) ==
    LET sourceId == getSourceId(e)
    IN IF ~sourceId.ok THEN sourceId
       ELSE Value(Request("POST", Plain("/query"),
                <<JsonStringify(
                    [messages |-> <<UserMessage(a.query)>>,
                     data_sources |-> <<(<<sourceId.val>>)>>,
                     search_mode |-> <<"sources">>,
                     include_sources |-> <<TRUE>>])>>))

browseEssays(a, e) ==
    LET sourceId == getSourceId(e)
    IN IF ~sourceId.ok THEN sourceId
       ELSE Value(Request("GET",
                Endpoint("/data-sources/", <<sourceId.val>>, FALSE, "/tree", <<>>),
                <<>>))

listDirectory(a, e) ==
    LET sourceId == getSourceId(e)
    IN IF ~sourceId.ok THEN sourceId
       ELSE Value(Request("GET",
                Endpoint("/data-sources/", <<sourceId.val>>, FALSE, "/ls",
                         <<[path |-> a.path[1]]>>),
                <<>>))

readEssay(a, e) ==
    LET sourceId == getSourceId(e)
    IN IF ~sourceId.ok THEN sourceId
       ELSE Value(Request("GET",
                Endpoint("/data-sources/", <<sourceId.val>>, FALSE, "/read",
                         <<[path |-> a.path[1]]>>),
                <<>>))

grepEssays(a, e) ==
    LET sourceId == getSourceId(e)
    IN IF ~sourceId.ok THEN sourceId
       ELSE Value(Request("POST",
                Endpoint("/data-sources/", <<sourceId.val>>, FALSE, "/grep", <<>>),
                <<JsonStringify(
                    [GrepBody(a, a.path) EXCEPT !.output_mode = a.outputMode])>>))

webSearchNaval(a, e) ==
    Value(Request("POST", Plain("/web-search"),
        <<JsonStringify(
            [query |-> a.query,
             num_results |-> a.numResults,
             category |-> IF TruthyStr(a.category) THEN a.category ELSE <<>>])>>))

getSourceContentNaval(a, e) ==
    Value(Request("POST", Plain("/sources/content"),
        <<JsonStringify(
            [source_type |-> a.sourceType,
             source_identifier |-> a.sourceIdentifier,
             metadata |-> a.metadata])>>))

\* execute of the named tool, up to its call of niaFetch
Execute(tool, a, e) ==
    CASE tool = "searchChromium" -> searchChromium(a, e)
      [] tool = "browseChromiumDocs" -> browseChromiumDocs(a, e)
      [] tool = "listChromiumDocsDirectory" -> listChromiumDocsDirectory(a, e)
      [] tool = "readChromiumDoc" -> readChromiumDoc(a, e)
      [] tool = "grepChromiumDocs" -> grepChromiumDocs(a, e)
      [] tool = "grepChromiumCode" -> grepChromiumCode(a, e)
      [] tool = "chromium/webSearch" -> webSearchChromium(a, e)
      [] tool = "chromium/getSourceContent" -> getSourceContentChromium(a, e)
      [] tool = "searchArchive" -> searchArchive(a, e)
      [] tool = "browseArchive" -> browseArchive(a, e)
      [] tool = "readArchiveDoc" -> readArchiveDoc(a, e)
      [] tool = "grepArchive" -> grepArchive(a, e)
      [] tool = "epstein/webSearch" -> webSearchEpstein(a, e)
      [] tool = "epstein/getSourceContent" -> getSourceContentEpstein(a, e)
      [] tool = "searchEssays" -> searchEssays(a, e)
      [] tool = "browseEssays" -> browseEssays(a, e)
      [] tool = "listDirectory" -> listDirectory(a, e)
      [] tool = "readEssay" -> readEssay(a, e)
      [] tool = "grepEssays" -> grepEssays(a, e)
      [] tool = "naval/webSearch" -> webSearchNaval(a, e)
      [] tool = "naval/getSourceContent" -> getSourceContentNaval(a, e)

\* one invocation up to the fetch: the request that goes out, or the Error
Prepare(tool, raw, e) ==
    LET parsed == Validate(tool, raw)
        handed == Execute(tool, parsed.val, e)
    IN IF ~parsed.ok THEN parsed
       ELSE IF ~handed.ok THEN handed
       ELSE niaFetch(e, handed.val.method, handed.val.endpoint, handed.val.body)

\* response.json() of a body
IsJson(body) == body = "{}"

\* what every tool does with the response
OnResponseLenient(response) ==
    IF ~IsJson(response.body)
    THEN Thrown("SyntaxError", response.body)
    ELSE Value(response.body)

OnResponse(response) ==
    IF ~response.ok
    THEN Thrown("Nia API error: ", response.body)
    ELSE IF ~IsJson(response.body)
    THEN Thrown("SyntaxError", response.body)
    ELSE Value(response.body)

\* fetch itself rejects
FetchRejected == Thrown("fetch failed", <<>>)

\* ---- the environments and the calls explored
Doc1 == <<"docs-1">>
Doc2 == <<"docs-2">>
Arch1 == <<"archive-1">>
Arch2 == <<"archive-2">>
Bio1 == <<"bio-1">>
Naval1 == <<"naval-1">>

Env(apiKey, docs, repos, archive, biographical, naval) ==
    [apiKey |-> apiKey, docs |-> docs, repos |-> repos, archive |-> archive,
     biographical |-> biographical, naval |-> naval]

\* NIA_API_KEY: unset, empty, set
KeyOpts == {<<>>, <<"">>, <<"key">>}

\* a deployment sets its own variables and leaves the others unset; a list
\* may hold empty pieces ("a,,b" or a trailing comma)
ChromiumEnvs ==
    {Env(k, d, r, <<>>, <<>>, <<>>) :
        k \in KeyOpts,
        d \in {<<>>, <<(<<(<<>>), Doc1>>)>>},
        r \in {<<>>, <<(<<RepoIdOf(<<"base">>), RepoIdOf(<<"net">>)>>)>>}}

EpsteinEnvs ==
    {Env(k, <<>>, <<>>, a, b, <<>>) :
        k \in KeyOpts,
        a \in {<<>>, <<(<<Arch1, Arch2>>)>>},
        b \in {<<>>, <<(<<Bio1>>)>>}}

NavalEnvs ==
    {Env(k, <<>>, <<>>, <<>>, <<>>, n) :
        k \in KeyOpts, n \in {<<>>, <<(<<>>)>>, <<Naval1>>}}

Envs == ChromiumEnvs \cup EpsteinEnvs \cup NavalEnvs

\* the arguments of a call: every field of the schema, <<>> where not given
Raw(tool, given) ==
    [f \in DOMAIN inputSchema(tool) |->
        IF f \in DOMAIN given THEN given[f] ELSE <<>>]

\* an identifier argument: absent, "", or one that need not be configured
IdOpts == {<<>>, <<(<<>>)>>, <<Doc2>>}

SubtreeOpts == {<<>>, <<(<<>>)>>, <<(<<"base">>)>>, <<(<<"v8">>)>>}

SubtreesOpts ==
    {<<>>, <<(<<>>)>>, <<(<<(<<"base">>)>>)>>, <<(<<(<<"base">>), (<<"v8">>)>>)>>}

\* the caps of a grep call: at most one is off its default, at, next to or far
\* from the ends of its range
CapInputs ==
    {[maxTotalMatches |-> v] : v \in {<<>>, <<0>>, <<1>>, <<1000>>, <<1001>>, <<5000>>}}
        \cup {[maxMatchesPerFile |-> v] : v \in {<<0>>, <<100>>, <<101>>}}
        \cup {[contextLines |-> v] : v \in {<<0>>, <<10>>, <<11>>}}
        \cup {[linesAfter |-> v] : v \in {<<20>>, <<21>>}}
        \cup {[linesBefore |-> v] : v \in {<<0>>, <<-1>>}}

Given(tool) ==
    CASE tool = "searchChromium" ->
             {[query |-> <<"q">>, subtrees |-> s, includeDocs |-> d] :
                 s \in SubtreesOpts, d \in {<<>>, <<FALSE>>}}
      [] tool = "browseChromiumDocs" -> {[sourceId |-> s] : s \in IdOpts}
      [] tool = "listChromiumDocsDirectory" ->
             {[path |-> p, sourceId |-> s] : p \in {<<>>, <<"a">>}, s \in IdOpts}
      [] tool = "readChromiumDoc" ->
             {[path |-> <<"a">>, sourceId |-> s] : s \in IdOpts}
      [] tool = "grepChromiumDocs" ->
             {[pattern |-> <<"p">>, path |-> p, sourceId |-> s] @@ c :
                 p \in {<<>>, <<"a">>}, s \in IdOpts, c \in CapInputs}
      [] tool = "grepChromiumCode" ->
             {[pattern |-> <<"p">>, path |-> p, subtree |-> s] @@ c :
                 p \in {<<>>, <<"a">>}, s \in SubtreeOpts, c \in CapInputs}
      [] tool \in {"chromium/webSearch", "naval/webSearch"} ->
             {[query |-> <<"q">>, numResults |-> n, category |-> c] :
                 n \in {<<>>, <<10>>, <<11>>}, c \in {<<>>, <<"news">>}}
      [] tool \in {"chromium/getSourceContent", "naval/getSourceContent"} ->
             {[sourceType |-> <<"repository">>, sourceIdentifier |-> <<"o/r:f">>,
               metadata |-> m] : m \in {<<>>, <<[k |-> "v"]>>}}
      [] tool = "searchArchive" ->
             {[query |-> <<"q">>, sourceType |-> t] :
                 t \in {<<>>, <<"archive">>, <<"biographical">>, <<"all">>}}
      [] tool = "browseArchive" -> {[repoId |-> s] : s \in IdOpts}
      [] tool \in {"readArchiveDoc", "epstein/getSourceContent"} ->
             {[path |-> <<"a">>, repoId |-> s] : s \in IdOpts}
      [] tool = "grepArchive" ->
             {[pattern |-> <<"p">>, path |-> p, repoId |-> s] @@ c :
                 p \in {<<>>, <<"a">>}, s \in IdOpts, c \in CapInputs}
      [] tool = "epstein/webSearch" ->
             {[query |-> <<"q">>, numResults |-> n, category |-> c,
               daysBack |-> d, findSimilarTo |-> f] :
                 n \in {<<>>, <<0>>}, c \in {<<>>, <<"news">>},
                 d \in {<<>>, <<0>>}, f \in {<<>>, <<"">>, <<"u">>}}
      [] tool = "searchEssays" -> {[query |-> <<"q">>]}
      [] tool = "browseEssays" -> {[none |-> <<>>]}
      [] tool = "listDirectory" -> {[path |-> p] : p \in {<<>>, <<"a">>}}
      [] tool = "readEssay" -> {[path |-> <<"a">>]}
      [] tool = "grepEssays" ->
             {[pattern |-> <<"p">>, path |-> p] @@ c :
                 p \in {<<>>, <<"a">>}, c \in CapInputs}

Inputs(tool) == {Raw(tool, g) : g \in Given(tool)}

\* the answers of the search API: a status that is ok or not, a body that is
\* JSON or not
Responses == [ok : BOOLEAN, body : {"{}", "oops"}]

\* ---------------------------------------------------- handlers in flight
\* A handler runs from one await to the next without interruption; between
\* two awaits of one handler any other handler may run.

\* the rate-limited flow of POST, cut at its awaits: the key and the
\* admission check, await req.json(), streamText and the response
HandlerSegmentsSplit == <<"read", "write", "body", "stream">>

HandlerSegments == <<"check", "body", "stream">>

Handlers == 1 .. NumHandlers

\* pc = 0: no request; else the segment that runs next. seen: the table as
\* read by a segment that ended before the check was written
IdleHandler == [pc |-> 0, ip |-> "", seen |-> <<>>]

NoHandlers == [h \in Handlers |-> IdleHandler]

\* ------------------------------------------------------- the splash screen
CACHE_DURATION_MS == 5 * 60 * 1000
HoldAfterMs == 800
ExitAfterMs == 2800
EpsteinAfterMs == 3500
SkipDelayMs == 700
DismissDelayMs == 500
MaxSplashMs == MaxSplashSteps * SplashStepMs

\* localStorage: setItem/getItem throw or not; the cached timestamp, if any
Storages ==
    [throws : BOOLEAN,
     cached : {<<>>, <<0 - CACHE_DURATION_MS>>, <<0 - CACHE_DURATION_MS - SplashStepMs>>}]

\* shouldShowSplash at time t
shouldShowSplash(storage, t) ==
    IF storage.throws THEN TRUE
    ELSE IF storage.cached = <<>> THEN TRUE
    ELSE t - storage.cached[1] > CACHE_DURATION_MS

\* cacheSplashSeen at time t: the storage it leaves, and whether it threw
cacheSplashSeenUncaught(storage, t) ==
    [storage |-> IF storage.throws THEN storage
                 ELSE [storage EXCEPT !.cached = <<t>>],
     threw |-> storage.throws]

cacheSplashSeen(storage, t) ==
    [storage |-> IF storage.throws THEN storage
                 ELSE [storage EXCEPT !.cached = <<t>>],
     threw |-> FALSE]

\* the component before it is mounted: the useState initial values. t is the
\* time since the page loaded, timers the pending setTimeout callbacks in the
\* order made, completed the calls of onComplete, dismissed and wasEpstein
\* history (a dismiss click was made, the phase has been "epstein").
Unmounted(storage) ==
    [mounted |-> FALSE, everMounted |-> FALSE, t |-> 0, phase |-> "nozomio-enter",
     isVisible |-> TRUE, hasStartedVideo |-> FALSE, isFading |-> FALSE,
     shouldRender |-> TRUE, timers |-> {}, made |-> 0, completed |-> 0,
     storage |-> storage, dismissed |-> 0, wasEpstein |-> FALSE]

NoSplash == Unmounted([throws |-> FALSE, cached |-> <<>>])

Timer(at, id, op) == [at |-> at, id |-> id, op |-> op]

\* the timers of the mount effect, which its cleanup clears
MountTimers ==
    {Timer(HoldAfterMs, 1, "nozomio-hold"), Timer(ExitAfterMs, 2, "nozomio-exit"),
     Timer(EpsteinAfterMs, 3, "epstein")}

\* the splash screen is on the page
Rendered(sp) == sp.mounted /\ sp.shouldRender /\ sp.isVisible

isNozomioPhase(sp) == sp.phase # "epstein"

\* onComplete: the parent takes the component off the page, which runs the
\* cleanup of the timers effect
onComplete(sp) ==
    [sp EXCEPT !.completed = @ + 1, !.mounted = FALSE,
               !.timers = @ \ MountTimers]

\* setPhase, which does nothing on a component that is gone
setPhase(sp, phase) ==
    IF sp.mounted
    THEN [sp EXCEPT !.phase = phase, !.wasEpstein = @ \/ phase = "epstein"]
    ELSE sp

\* the two effects that run on mount
MountEffects(sp) ==
    LET up == [sp EXCEPT !.mounted = TRUE, !.everMounted = TRUE]
    IN IF shouldShowSplash(sp.storage, sp.t)
       THEN [up EXCEPT !.timers = MountTimers, !.made = 3]
       ELSE onComplete([up EXCEPT !.shouldRender = FALSE, !.made = 3])

skipNozomio(sp) ==
    [setPhase(sp, "nozomio-exit") EXCEPT
        !.timers = @ \cup {Timer(sp.t + SkipDelayMs, sp.made + 1, "epstein")},
        !.made = @ + 1]

handleStartWithSound(sp) == [sp EXCEPT !.hasStartedVideo = TRUE]

handleDismiss(sp) ==
    LET cached == cacheSplashSeen(sp.storage, sp.t)
        fading == [sp EXCEPT !.isFading = TRUE, !.dismissed = @ + 1,
                             !.storage = cached.storage]
    IN IF cached.threw THEN fading
       ELSE [fading EXCEPT
                !.timers = @ \cup {Timer(sp.t + DismissDelayMs, sp.made + 1, "complete")},
                !.made = @ + 1]

\* a timer callback
Callback(sp, timer) ==
    LET rest == [sp EXCEPT !.timers = @ \ {timer}]
    IN IF timer.op = "complete"
       THEN onComplete(IF rest.mounted THEN [rest EXCEPT !.isVisible = FALSE]
                       ELSE rest)
       ELSE setPhase(rest, timer.op)

\* the timer that is due and goes first: earliest due time, then first made
Due(sp, timer) ==
    /\ timer \in sp.timers
    /\ timer.at <= sp.t
    /\ \A other \in sp.timers :
           \/ other.at > timer.at
           \/ other.at = timer.at /\ other.id >= timer.id

\* ------------------------------------------------------------ the history

\* the times of the allowed calls for the observed key, in the order made
NoAdmissions == <<>>

Record(log, t, ret) == IF ret.allowed THEN Append(log, t) ELSE log

\* the admissions a caller has seen for the window identified by its resetAt
Observe(w, ret) ==
    IF ~ret.allowed THEN w
    ELSE IF w.resetAt = ret.resetAt THEN [w EXCEPT !.n = @ + 1]
    ELSE [n |-> 1, resetAt |-> ret.resetAt]

\* what a call did: its argument, its two clock reads, its return value, the
\* entry it found before the cleanup (pre), the table the cleanup left (mid)
\* and the keys the cleanup deleted
Called(map, ip, t1, t2, c) ==
    [called |-> TRUE, ip |-> ip, t1 |-> t1, t2 |-> t2, ret |-> c.ret,
     pre |-> IF ip \in DOMAIN map THEN <<map[ip]>> ELSE <<>>,
     swept |-> c.swept, mid |-> c.mid,
     deleted |-> (DOMAIN map) \ (DOMAIN c.mid)]

InitLimiter ==
    /\ now = 0
    /\ rateLimitMap = EmptyMap
    /\ lastCleanup = now
    /\ last = NoCall
    /\ win = [k \in Keys |-> [n |-> 0, resetAt |-> -1]]
    /\ sweepAt = <<now>>
    /\ refMap = EmptyMap
    /\ refLastCleanup = now
    /\ refLast = NoCall

\* the deployment of this repository: the credential and both source lists set
\* the environment of the deployed chat route, which imports niaEpsteinTools
DeployedEnv ==
    Env(<<"key">>, <<>>, <<>>, <<(<<Arch1, Arch2>>)>>, <<(<<Bio1>>)>>, <<>>)

Idle == [stage |-> "idle"]

InitRest ==
    /\ http = NoExchange
    /\ handlers = NoHandlers
    /\ admitted = NoAdmissions
    /\ splash = NoSplash
    /\ env = DeployedEnv
    /\ call = Idle
    /\ wire = <<>>

Init == InitLimiter /\ obs = "unknown" /\ InitRest

\* --------------------------------------------------------------- actions

\* one call checkRateLimit(ip); the clock moves by d between its two reads
Limiter(ip, d) ==
    LET t1 == now
        t2 == now + d
        c == checkRateLimit(rateLimitMap, lastCleanup, ip, t1, t2)
    IN /\ t2 <= MaxNow
       /\ now' = t2
       /\ rateLimitMap' = c.map
       /\ lastCleanup' = c.lastCleanup
       /\ last' = Called(rateLimitMap, ip, t1, t2, c)
       /\ win' = [win EXCEPT ![ip] = Observe(@, c.ret)]
       /\ sweepAt' = IF c.swept THEN <<t1, sweepAt[1]>> ELSE sweepAt

\* the same call made to the reference limiter
Reference(ip, d) ==
    LET t1 == now
        t2 == now + d
        c == checkRateLimit(refMap, refLastCleanup, ip, t1, t2)
    IN /\ refMap' = c.map
       /\ refLastCleanup' = c.lastCleanup
       /\ refLast' = Called(refMap, ip, t1, t2, c)

CallCheckRateLimit ==
    \E ip \in Keys, d \in {0, TickMs} :
        /\ Limiter(ip, d)
        /\ UNCHANGED <<obs, refMap, refLastCleanup, refLast, http, sideVars, toolVars>>

\* time passes between requests
Tick ==
    /\ now + TickMs <= MaxNow
    /\ now' = now + TickMs
    /\ last' = NoCall
    /\ refLast' = NoCall
    /\ UNCHANGED <<rateLimitMap, lastCleanup, win, sweepAt, obs, refMap, refLastCleanup>>
    /\ UNCHANGED <<http, sideVars, toolVars>>

Next == CallCheckRateLimit \/ Tick

Spec == Init /\ [][Next]_vars

\* two runs side by side: the limiter gets every call, the reference limiter
\* only the calls for obs, at the same clock values
InitIso == InitLimiter /\ obs \in Keys /\ InitRest

CallObserved ==
    \E d \in {0, TickMs} :
        /\ now + d <= MaxNowIso
        /\ Limiter(obs, d)
        /\ Reference(obs, d)
        /\ UNCHANGED <<obs, http, sideVars, toolVars>>

CallOther ==
    \E ip \in Keys \ {obs}, d \in {0, TickMs} :
        /\ now + d <= MaxNowIso
        /\ Limiter(ip, d)
        /\ refLast' = NoCall
        /\ UNCHANGED <<obs, refMap, refLastCleanup, http, sideVars, toolVars>>

TickIso == now + TickMs <= MaxNowIso /\ Tick

NextIso == CallObserved \/ CallOther \/ TickIso

SpecIso == InitIso /\ [][NextIso]_vars

\* the request handler: POST requests with every combination of the two
\* address headers. The reference limiter is given the key of every request
\* from the client obs, which is what the handler past its first statement
\* would give checkRateLimit.
InitHttp == InitLimiter /\ obs \in HttpKeys /\ InitRest

POST ==
    \E xff \in XffOpts, xri \in XriOpts, d \in {0, TickMs} :
        LET ip == ClientKey(xff, xri)
            c == checkRateLimit(rateLimitMap, lastCleanup, ip, now, now + d)
        IN /\ now + d <= MaxNowHttp
           /\ now' = now + d
           /\ IF MaintenanceReturn
              THEN /\ http' = ServiceUnavailable(xff, xri)
                   /\ UNCHANGED limiterVars
              ELSE /\ rateLimitMap' = c.map
                   /\ lastCleanup' = c.lastCleanup
                   /\ last' = Called(rateLimitMap, ip, now, now + d, c)
                   /\ sweepAt' = IF c.swept THEN <<now, sweepAt[1]>> ELSE sweepAt
                   /\ win' = win
                   /\ http' = IF ~c.ret.allowed
                              THEN TooManyRequests(xff, xri, c.ret, now + d)
                              ELSE Streamed(xff, xri, c.ret)
           /\ IF ip = obs
              THEN Reference(ip, d)
              ELSE refLast' = NoCall /\ UNCHANGED <<refMap, refLastCleanup>>
           /\ UNCHANGED <<obs, toolVars, sideVars>>

TickHttp == now + TickMs <= MaxNowHttp /\ Tick

NextHttp == POST \/ TickHttp

SpecHttp == InitHttp /\ [][NextHttp]_vars

\* the tool proxy: one tool call at a time, in every environment. wire holds
\* the requests of the call in progress.
InitTools ==
    /\ InitLimiter
    /\ obs = "unknown"
    /\ http = NoExchange
    /\ handlers = NoHandlers
    /\ admitted = NoAdmissions
    /\ splash = NoSplash
    /\ env \in Envs
    /\ call = Idle
    /\ wire = <<>>

Started(tool, raw) ==
    [stage |-> "awaiting", tool |-> tool, args |-> raw, response |-> <<>>,
     outcomes |-> <<>>]

\* the runtime calls a tool: validation, execute up to the fetch
Invoke ==
    \E tool \in Tools :
        \E raw \in Inputs(tool) :
            LET prepared == Prepare(tool, raw, env)
            IN /\ call.stage = "idle"
               /\ IF prepared.ok
                  THEN /\ wire' = Send(<<>>, prepared.val)
                       /\ call' = Started(tool, raw)
                  ELSE /\ wire' = <<>>
                       /\ call' = [Started(tool, raw) EXCEPT
                                      !.stage = "done",
                                      !.outcomes = <<prepared>>]
               /\ UNCHANGED <<now, limiterVars, obs, refVars, http, sideVars, env>>

\* the search API answers and execute runs to its end
Respond ==
    \E response \in Responses :
        /\ call.stage = "awaiting"
        /\ call' = [call EXCEPT !.stage = "done",
                                !.response = <<response>>,
                                !.outcomes = Append(@, OnResponse(response))]
        /\ UNCHANGED <<now, limiterVars, obs, refVars, http, sideVars, env, wire>>

\* the fetch rejects and the rejection leaves execute
FetchFails ==
    /\ call.stage = "awaiting"
    /\ call' = [call EXCEPT !.stage = "done",
                            !.outcomes = Append(@, FetchRejected)]
    /\ UNCHANGED <<now, limiterVars, obs, refVars, http, sideVars, env, wire>>

\* the runtime takes the outcome; nothing of a call outlives it
Settle ==
    /\ call.stage = "done"
    /\ call' = Idle
    /\ wire' = <<>>
    /\ UNCHANGED <<now, limiterVars, obs, refVars, http, sideVars, env>>

NextTools == Invoke \/ Respond \/ FetchFails \/ Settle

SpecTools == InitTools /\ [][NextTools]_vars

\* the rate-limited flow under concurrent requests: each step runs one
\* handler from where it is suspended to its next await
InitConc == InitLimiter /\ obs = "unknown" /\ InitRest

\* the handler after the segment it has just run
Advance(r) ==
    IF r.pc = Len(HandlerSegments) THEN IdleHandler
    ELSE [r EXCEPT !.pc = @ + 1, !.seen = <<>>]

Step(h) ==
    \E ip \in Keys :
        LET me == handlers[h]
            req == IF me.pc = 0 THEN [pc |-> 1, ip |-> ip, seen |-> <<>>] ELSE me
            seg == HandlerSegments[req.pc]
            c == IF req.seen = <<>>
                 THEN checkRateLimit(rateLimitMap, lastCleanup, req.ip, now, now)
                 ELSE checkRateLimit(req.seen[1].map, req.seen[1].lastCleanup,
                                     req.ip, now, now)
        IN /\ me.pc # 0 => ip = me.ip
           /\ CASE seg = "check" ->
                       /\ rateLimitMap' = c.map
                       /\ lastCleanup' = c.lastCleanup
                       /\ win' = [win EXCEPT ![req.ip] = Observe(@, c.ret)]
                       /\ handlers' = [handlers EXCEPT ![h] =
                               IF c.ret.allowed THEN Advance(req) ELSE IdleHandler]
                [] seg = "read" ->
                       /\ handlers' = [handlers EXCEPT ![h] =
                               [req EXCEPT !.pc = @ + 1,
                                           !.seen = <<[map |-> rateLimitMap,
                                                       lastCleanup |-> lastCleanup]>>]]
                       /\ UNCHANGED <<rateLimitMap, lastCleanup, win>>
                [] seg = "write" ->
                       /\ rateLimitMap' =
                              [k \in DOMAIN rateLimitMap \cup {req.ip} |->
                                  IF k = req.ip THEN c.map[k] ELSE rateLimitMap[k]]
                       /\ lastCleanup' = c.lastCleanup
                       /\ win' = [win EXCEPT ![req.ip] = Observe(@, c.ret)]
                       /\ handlers' = [handlers EXCEPT ![h] =
                               IF c.ret.allowed THEN Advance(req) ELSE IdleHandler]
                [] OTHER ->
                       /\ handlers' = [handlers EXCEPT ![h] = Advance(req)]
                       /\ UNCHANGED <<rateLimitMap, lastCleanup, win>>
           /\ UNCHANGED <<now, last, sweepAt, obs, refVars, http, splash, admitted,
                        toolVars>>

TickConc == now + TickMs <= MaxNowConc /\ Tick

NextConc == (\E h \in Handlers : Step(h)) \/ TickConc

SpecConc == InitConc /\ [][NextConc]_vars

\* two limiters side by side given the same calls at the same clock values:
\* the limiter, and the one without the sweep
MaxNowSweep == MaxTicksSweep * TickMs

Unswept(ip, d) ==
    LET t1 == now
        t2 == now + d
        c == checkWithoutSweep(refMap, refLastCleanup, ip, t1, t2)
    IN /\ refMap' = c.map
       /\ refLastCleanup' = c.lastCleanup
       /\ refLast' = Called(refMap, ip, t1, t2, c)

CallBoth ==
    \E ip \in Keys, d \in {0, TickMs} :
        /\ now + d <= MaxNowSweep
        /\ Limiter(ip, d)
        /\ Unswept(ip, d)
        /\ UNCHANGED <<obs, http, sideVars, toolVars>>

TickSweep == now + TickMs <= MaxNowSweep /\ Tick

NextSweep == CallBoth \/ TickSweep

SpecSweep == Init /\ [][NextSweep]_vars

\* the limiter with the time of every allowed call for obs recorded, among
\* calls for the other keys
MaxNowBurst == MaxTicksBurst * TickMs

CallRecorded ==
    \E d \in {0, TickMs} :
        /\ now + d <= MaxNowBurst
        /\ Limiter(obs, d)
        /\ admitted' = Record(admitted, now + d,
                              checkRateLimit(rateLimitMap, lastCleanup, obs,
                                             now, now + d).ret)
        /\ UNCHANGED <<obs, refVars, http, handlers, splash, toolVars>>

CallUnrecorded ==
    \E ip \in Keys \ {obs}, d \in {0, TickMs} :
        /\ now + d <= MaxNowBurst
        /\ Limiter(ip, d)
        /\ UNCHANGED <<obs, refVars, http, sideVars, toolVars>>

TickBurst == now + TickMs <= MaxNowBurst /\ Tick

NextBurst == CallRecorded \/ CallUnrecorded \/ TickBurst

SpecBurst == InitIso /\ [][NextBurst]_vars

\* the splash screen from page load: the mount, the timers as they come
\* due (on time or late), the clicks the rendered buttons allow
InitSplash ==
    /\ InitLimiter
    /\ obs = "unknown"
    /\ http = NoExchange
    /\ handlers = NoHandlers
    /\ admitted = NoAdmissions
    /\ splash \in {Unmounted(storage) : storage \in Storages}
    /\ env = DeployedEnv
    /\ call = Idle
    /\ wire = <<>>

SplashFrame ==
    UNCHANGED <<now, limiterVars, obs, refVars, http, handlers, admitted, toolVars>>

Mount ==
    /\ ~splash.everMounted
    /\ splash' = MountEffects(splash)
    /\ SplashFrame

Fire ==
    \E timer \in splash.timers :
        /\ Due(splash, timer)
        /\ splash' = Callback(splash, timer)
        /\ SplashFrame

ClickSkipNozomio ==
    /\ Rendered(splash)
    /\ splash.phase = "nozomio-hold"
    /\ splash' = skipNozomio(splash)
    /\ SplashFrame

ClickStartWithSound ==
    /\ Rendered(splash)
    /\ ~isNozomioPhase(splash)
    /\ ~splash.hasStartedVideo
    /\ splash' = handleStartWithSound(splash)
    /\ SplashFrame

ClickDismiss ==
    /\ Rendered(splash)
    /\ ~isNozomioPhase(splash)
    /\ splash.hasStartedVideo
    /\ splash.dismissed < MaxDismissClicks
    /\ splash' = handleDismiss(splash)
    /\ SplashFrame

TickSplash ==
    /\ splash.everMounted
    /\ splash.t + SplashStepMs <= MaxSplashMs
    /\ splash' = [splash EXCEPT !.t = @ + SplashStepMs]
    /\ SplashFrame

NextSplash ==
    Mount \/ Fire \/ ClickSkipNozomio \/ ClickStartWithSound \/ ClickDismiss
        \/ TickSplash

SpecSplash == InitSplash /\ [][NextSplash]_vars

\* ------------------------------------------------------------ properties

Decision(a, r, t) == [allowed |-> a, remaining |-> r, resetAt |-> t]

\* the call that has just returned was for key k
ReturnedFor(k) == last.called /\ last.ip = k

\* C1: once MAX_REQUESTS_PER_WINDOW calls for a key have been admitted in one
\* window, every further call for it made while that window is unexpired
\* (Date.now() <= resetAt) returns allowed = false and remaining = 0.
C1_ExhaustedWindowRejects ==
    [][\A k \in Keys :
         (/\ win[k].n >= MAX_REQUESTS_PER_WINDOW
          /\ last'.called /\ last'.ip = k
          /\ last'.t2 <= win[k].resetAt)
         => (last'.ret.allowed = FALSE /\ last'.ret.remaining = 0)]_vars

C1_Witness ==
    /\ last.called
    /\ last.ret.allowed = FALSE
    /\ win[last.ip].n = MAX_REQUESTS_PER_WINDOW
    /\ last.t2 <= win[last.ip].resetAt

\* C2: a call at time t2 that finds no entry for its key, or an entry with
\* t2 > resetAt, leaves the entry {count: 1, resetAt: t2 + window} and returns
\* allowed = true, remaining = ceiling - 1, whatever the count was before.
C2_FreshWindow ==
    [][\A k \in Keys :
         (/\ last'.called /\ last'.ip = k
          /\ (k \notin DOMAIN rateLimitMap \/ last'.t2 > rateLimitMap[k].resetAt))
         => (/\ k \in DOMAIN rateLimitMap'
             /\ rateLimitMap'[k] =
                  [count |-> 1, resetAt |-> last'.t2 + RATE_LIMIT_WINDOW_MS]
             /\ last'.ret = Decision(TRUE, MAX_REQUESTS_PER_WINDOW - 1,
                                     last'.t2 + RATE_LIMIT_WINDOW_MS))]_vars

\* a call that replaced the expired entry of an exhausted key
C2_Witness ==
    /\ last.called
    /\ last.pre # <<>>
    /\ last.pre[1].count = MAX_REQUESTS_PER_WINDOW
    /\ last.t2 > last.pre[1].resetAt
    /\ last.ret.allowed
    /\ rateLimitMap[last.ip].count = 1

\* C3: the decisions returned for a key are the same whether or not the calls
\* for the other keys are made: the limiter that gets every call and the
\* reference limiter that gets only the calls for obs return the same
\* decision to each call for obs.
C3_KeyIsolation ==
    refLast.called => (last.called /\ last.ip = refLast.ip /\ last.ret = refLast.ret)

\* a call for obs returns while another key is exhausted and the other key's
\* calls have made the two limiters sweep at different times
C3_Witness ==
    /\ refLast.called
    /\ lastCleanup # refLastCleanup
    /\ \E k \in (DOMAIN rateLimitMap) \ {obs} :
           rateLimitMap[k].count = MAX_REQUESTS_PER_WINDOW

\* C4: a call that finds an unexpired entry with count < ceiling increments
\* the count by exactly 1, leaves resetAt alone and returns allowed = true
\* with remaining = ceiling - (the incremented count).
C4_AdmitIncrements ==
    [][\A k \in Keys :
         (/\ last'.called /\ last'.ip = k
          /\ k \in DOMAIN rateLimitMap
          /\ last'.t2 <= rateLimitMap[k].resetAt
          /\ rateLimitMap[k].count < MAX_REQUESTS_PER_WINDOW)
         => (/\ k \in DOMAIN rateLimitMap'
             /\ rateLimitMap'[k].count = rateLimitMap[k].count + 1
             /\ rateLimitMap'[k].resetAt = rateLimitMap[k].resetAt
             /\ last'.ret = Decision(TRUE,
                                     MAX_REQUESTS_PER_WINDOW - rateLimitMap'[k].count,
                                     rateLimitMap[k].resetAt))]_vars

C4_Witness ==
    /\ last.called
    /\ last.pre # <<>>
    /\ last.t2 <= last.pre[1].resetAt
    /\ last.t2 > last.pre[1].resetAt - RATE_LIMIT_WINDOW_MS
    /\ last.pre[1].count = MAX_REQUESTS_PER_WINDOW - 1
    /\ last.ret = Decision(TRUE, 0, last.pre[1].resetAt)

\* C5: a call that finds an unexpired entry with count >= ceiling returns
\* allowed = false, remaining = 0 and the entry's resetAt, and leaves the
\* entry as it was: a rejection never moves the window.
C5_RejectKeepsWindow ==
    [][\A k \in Keys :
         (/\ last'.called /\ last'.ip = k
          /\ k \in DOMAIN rateLimitMap
          /\ last'.t2 <= rateLimitMap[k].resetAt
          /\ rateLimitMap[k].count >= MAX_REQUESTS_PER_WINDOW)
         => (/\ last'.ret = Decision(FALSE, 0, rateLimitMap[k].resetAt)
             /\ k \in DOMAIN rateLimitMap'
             /\ rateLimitMap'[k] = rateLimitMap[k])]_vars

\* a rejection at the last instant of the window
C5_Witness ==
    /\ last.called
    /\ last.ret.allowed = FALSE
    /\ last.pre # <<>>
    /\ last.t2 = last.pre[1].resetAt
    /\ rateLimitMap[last.ip] = last.pre[1]

\* C6: every entry of the table has 0 <= count <= ceiling.
C6_CountWithinCeiling ==
    \A k \in DOMAIN rateLimitMap :
        /\ rateLimitMap[k].count >= 0
        /\ rateLimitMap[k].count <= MAX_REQUESTS_PER_WINDOW

\* an exhausted key has just been refused
C6_Witness ==
    /\ last.called
    /\ last.ret.allowed = FALSE
    /\ rateLimitMap[last.ip].count = MAX_REQUESTS_PER_WINDOW

\* C7: a sweep run at time t1 deletes exactly the entries with resetAt < t1
\* and changes no other entry; the table it leaves has no expired entry.
C7_SweepRemovesExactlyExpired ==
    [][(last'.called /\ last'.swept)
         => (/\ DOMAIN last'.mid =
                  {k \in DOMAIN rateLimitMap : ~(rateLimitMap[k].resetAt < last'.t1)}
             /\ \A k \in DOMAIN last'.mid : last'.mid[k] = rateLimitMap[k]
             /\ \A k \in DOMAIN last'.mid : last'.mid[k].resetAt >= last'.t1)]_vars

\* a sweep that deleted one entry and kept another whose window ends at the
\* time of the sweep
C7_Witness ==
    /\ last.called
    /\ last.swept
    /\ last.deleted # {}
    /\ \E k \in DOMAIN last.mid : last.mid[k].resetAt = last.t1

\* C8: entries are deleted only by a sweep inside a checkRateLimit call; two
\* sweeps, and module initialisation and the first sweep, are at least 5
\* minutes apart; a call made less than 5 minutes after the last sweep
\* deletes nothing.
C8_SweepAtMostOncePerInterval ==
    [][/\ ~((DOMAIN rateLimitMap) \subseteq (DOMAIN rateLimitMap'))
            => (last'.called /\ last'.swept)
       /\ (last'.called /\ last'.swept)
            => last'.t1 - sweepAt[1] >= CLEANUP_INTERVAL_MS
       /\ (last'.called /\ last'.t1 - sweepAt[1] < CLEANUP_INTERVAL_MS)
            => (/\ ~last'.swept
                /\ (DOMAIN rateLimitMap) \subseteq (DOMAIN rateLimitMap'))]_vars

\* the second sweep of a run
C8_Witness ==
    /\ last.called
    /\ last.swept
    /\ Len(sweepAt) = 2
    /\ sweepAt[2] > 0
    /\ last.deleted # {}

\* C9: a second sweep at the clock value of the first, with no admission in
\* between, deletes nothing: the loop run again leaves the table as it is,
\* and so does cleanupRateLimitMap called again.
C9_SweepIdempotent ==
    (last.called /\ last.swept)
        => (/\ Sweep(last.mid, last.t1) = last.mid
            /\ cleanupRateLimitMap(last.mid, lastCleanup, last.t1).map = last.mid)

\* a sweep that deleted every entry of a table of two
C9_Witness ==
    /\ last.called
    /\ last.swept
    /\ Cardinality(last.deleted) = 2

\* C10: in every state, for every key and clock value, checkRateLimit returns
\* a record {allowed, remaining, resetAt} with 0 <= remaining <= ceiling - 1.
C10_Total ==
    /\ \A k \in Keys, d \in {0, TickMs} :
           checkRateLimit(rateLimitMap, lastCleanup, k, now, now + d).ret
               \in [allowed : BOOLEAN,
                    remaining : 0 .. (MAX_REQUESTS_PER_WINDOW - 1),
                    resetAt : Nat]
    /\ last.called
           => last.ret \in [allowed : BOOLEAN,
                            remaining : 0 .. (MAX_REQUESTS_PER_WINDOW - 1),
                            resetAt : Nat]

\* the empty key is refused while the sentinel key has an entry
C10_Witness ==
    /\ last.called
    /\ last.ip = ""
    /\ last.ret = Decision(FALSE, 0, rateLimitMap[""].resetAt)
    /\ "unknown" \in DOMAIN rateLimitMap

\* the identity the address headers offer: the trimmed first comma-separated
\* value of x-forwarded-for if there is one, else x-real-ip if there is one,
\* else the sentinel; an empty string is no identity
FirstIdentity(xff, xri) ==
    LET a == IF xff # <<>> THEN Trim(FirstSegment(xff[1])) ELSE <<>>
    IN IF a # <<>> THEN a
       ELSE IF xri # <<>> /\ xri[1] # <<>> THEN xri[1]
       ELSE Unknown

\* the request just answered is one the limiter, given the key of every
\* request of its client, refuses
OverLimit == http.handled /\ refLast.called /\ refLast.ret.allowed = FALSE

\* C11: every POST request is first submitted to checkRateLimit with its
\* client key, and it is handed to streamText only if the limiter allowed it.
C11_EveryRequestRateLimited ==
    http.handled
        => (/\ http.limiter # <<>>
            /\ http.streamed => http.limiter[1].allowed)

\* C12: a request the limiter refuses is answered 429 with Retry-After,
\* X-RateLimit-Limit = ceiling, X-RateLimit-Remaining = 0 and
\* X-RateLimit-Reset, and its body is neither read nor given to the model.
C12_RefusedGets429 ==
    OverLimit
        => (/\ http.status = 429
            /\ {"Retry-After", "X-RateLimit-Limit", "X-RateLimit-Remaining",
                "X-RateLimit-Reset"} \subseteq DOMAIN http.headers
            /\ http.headers["X-RateLimit-Limit"] = ToString(MAX_REQUESTS_PER_WINDOW)
            /\ http.headers["X-RateLimit-Remaining"] = "0"
            /\ ~http.bodyRead
            /\ ~http.streamed)

\* C13: every POST request is answered 503 with a Retry-After header; the
\* handler does not call checkRateLimit, the table and lastCleanup stay as
\* module initialisation left them, the body is not read, and neither
\* streamText nor a tool is started.
C13_MaintenanceAnswers503 ==
    /\ rateLimitMap = EmptyMap
    /\ lastCleanup = 0
    /\ last = NoCall
    /\ call = Idle
    /\ wire = <<>>
    /\ http.handled
         => (/\ http.status = 503
             /\ "Retry-After" \in DOMAIN http.headers
             /\ http.limiter = <<>>
             /\ ~http.bodyRead
             /\ ~http.streamed)

\* the eleventh request of one client within a window is answered 503
C13_Witness ==
    /\ OverLimit
    /\ http.status = 503
    /\ http.headers["Retry-After"] = "3600"

\* C14: for every combination of present, absent or empty x-forwarded-for and
\* x-real-ip, the client key is the first available identity: the trimmed
\* first value of x-forwarded-for, then x-real-ip, and "unknown" when neither
\* offers one.
C14_ClientKeyIsFirstIdentity ==
    http.handled => ClientKey(http.xff, http.xri) = FirstIdentity(http.xff, http.xri)

\* ---- the tool proxy

\* the one outcome of the call that has ended
Outcome == call.outcomes[1]

\* the call in progress or just ended passes its input schema
WellFormed == call.stage # "idle" /\ Validate(call.tool, call.args).ok

\* the call ended in an Error thrown before anything was sent
RejectedLocally(texts) ==
    /\ call.stage = "done"
    /\ wire = <<>>
    /\ ~Outcome.ok
    /\ Outcome.err.text \in texts

\* a subtree-scoped call names a subtree outside CHROMIUM_REPO_SOURCES
UnknownScope ==
    /\ WellFormed
    /\ \/ /\ call.tool = "searchChromium"
          /\ call.args.subtrees # <<>>
          /\ \E i \in 1 .. Len(call.args.subtrees[1]) :
                 ~Includes(getChromiumRepoSources(env),
                           RepoIdOf(call.args.subtrees[1][i]))
       \/ /\ call.tool = "grepChromiumCode"
          /\ call.args.subtree # <<>>
          /\ call.args.subtree[1] # <<>>
          /\ ~Includes(getChromiumRepoSources(env), RepoIdOf(call.args.subtree[1]))

\* C15: a subtree-scoped call (searchChromium with subtrees, grepChromiumCode
\* with a subtree) whose scope is not among the configured repository sources
\* throws an error listing the valid subtrees and sends no request, whatever
\* CHROMIUM_REPO_SOURCES holds, the empty list included. (Stated for the
\* environments with a credential, where no other error comes first.)
C15_UnknownScopeRejected ==
    UnknownScope /\ TruthyStr(env.apiKey)
        => (/\ RejectedLocally({"Invalid subtrees", "Subtree not found"})
            /\ Outcome.err.detail.available
                   = LastSegments(getChromiumRepoSources(env)))

\* a semantic search is asked of a scope for which nothing is configured
NoSourcesForScope ==
    /\ WellFormed
    /\ \/ /\ call.tool = "searchArchive"
          /\ IF call.args.sourceType = <<"archive">>
             THEN getEpsteinArchiveSources(env) = <<>>
             ELSE IF call.args.sourceType = <<"biographical">>
             THEN getEpsteinBiographicalSources(env) = <<>>
             ELSE getAllEpsteinSources(env) = <<>>
       \/ /\ call.tool = "searchChromium"
          /\ call.args.subtrees = <<>> \/ call.args.subtrees = <<(<<>>)>>
          /\ getChromiumRepoSources(env) = <<>>
          /\ call.args.includeDocs = <<FALSE>> \/ getChromiumDocsSources(env) = <<>>
       \/ /\ call.tool = "searchEssays"
          /\ env.naval = <<>> \/ env.naval = <<(<<>>)>>

\* C16: a semantic search (searchArchive, searchChromium, searchEssays) made
\* when no sources are configured for the requested scope throws before any
\* request goes out, and no search request is sent with neither data_sources
\* nor repositories.
C16_SearchNeedsSources ==
    /\ NoSourcesForScope => call.stage = "done" /\ wire = <<>> /\ ~Outcome.ok
    /\ call.stage # "idle" /\ call.tool \in SearchTools
         => \A i \in 1 .. Len(wire) :
                \/ "data_sources" \in DOMAIN wire[i].body[1]
                \/ "repositories" \in DOMAIN wire[i].body[1]

\* the documented bounds of the caps, by their names in the request body
DocumentedBounds ==
    [context_lines |-> GrepOptions.contextLines,
     A |-> GrepOptions.linesAfter,
     B |-> GrepOptions.linesBefore,
     max_matches_per_file |-> GrepOptions.maxMatchesPerFile,
     max_total_matches |-> GrepOptions.maxTotalMatches]

CapsWithinBounds(body) ==
    \A f \in DOMAIN DocumentedBounds :
        f \in DOMAIN body => ~OutOfRange(DocumentedBounds[f], <<body[f]>>)

\* the caller gave a cap outside its documented bounds
CapOutOfRange ==
    \E f \in {"contextLines", "linesAfter", "linesBefore", "maxMatchesPerFile",
              "maxTotalMatches"} :
        OutOfRange(GrepOptions[f], call.args[f])

\* C17 as first stated: a grep call with maxTotalMatches above 1000 that
\* would go out with the cap in range goes out with max_total_matches = 1000.
C17_CapsClamped ==
    /\ call.stage # "idle"
    /\ call.tool \in GrepTools
    /\ call.args.maxTotalMatches # <<>>
    /\ call.args.maxTotalMatches[1] > 1000
    /\ Prepare(call.tool, [call.args EXCEPT !.maxTotalMatches = <<1000>>], env).ok
    => /\ Len(wire) = 1
       /\ wire[1].body[1].max_total_matches = 1000

\* C17: no request of a grep tool carries a cap outside its documented bounds;
\* a call that gives one is refused by the input schema before the request is
\* built, and nothing is sent.
C17_CapsValidated ==
    call.stage # "idle" /\ call.tool \in GrepTools
        => (/\ \A i \in 1 .. Len(wire) : CapsWithinBounds(wire[i].body[1])
            /\ CapOutOfRange => RejectedLocally({"Invalid input for tool"}))

\* a grep call asking for 5000 matches, in an environment where the same call
\* with 1000 goes out, has ended without a request
C17_Witness ==
    /\ call.stage = "done"
    /\ call.tool = "grepArchive"
    /\ call.args.maxTotalMatches = <<5000>>
    /\ Prepare(call.tool, [call.args EXCEPT !.maxTotalMatches = <<1000>>], env).ok
    /\ RejectedLocally({"Invalid input for tool"})

\* C18: when the search API answers with a non-success status the tool throws
\* an error carrying the response body, returns no payload and sends no
\* further request; a payload is returned only after a success status.
C18_NonSuccessThrows ==
    call.stage = "done"
        => (/\ call.response # <<>> /\ ~call.response[1].ok
                => /\ call.outcomes
                          = <<Thrown("Nia API error: ", call.response[1].body)>>
                   /\ Len(wire) = 1
            /\ Outcome.ok => call.response # <<>> /\ call.response[1].ok)

\* grepArchive has ended on a non-success answer
C18_Witness ==
    /\ call.stage = "done"
    /\ call.tool = "grepArchive"
    /\ call.response # <<>>
    /\ ~call.response[1].ok
    /\ ~Outcome.ok

\* the Errors thrown before anything is sent: input validation, scope
\* rejection, missing configuration
LocalErrors ==
    {"Invalid input for tool", "Invalid subtrees", "Subtree not found",
     "CHROMIUM_DOCS_SOURCES not configured",
     "NIA_EPSTEIN_ARCHIVE_SOURCES not configured",
     "NAVAL_NIA_SOURCE environment variable is not set",
     "No Epstein sources configured. Check your .env",
     "NIA_API_KEY environment variable is not set"}

\* C19 as first stated: every tool call that has ended has sent exactly one
\* request and has exactly one outcome.
C19_ExactlyOneRequest ==
    call.stage = "done" => Len(wire) = 1 /\ Len(call.outcomes) = 1

\* C19: every tool call sends at most one request and ends in exactly one
\* outcome; it sends none exactly when it is rejected locally (validation,
\* scope or configuration error), and then the outcome is that error.
C19_AtMostOneRequest ==
    /\ call.stage = "idle" => wire = <<>>
    /\ call.stage = "awaiting" => Len(wire) = 1 /\ call.outcomes = <<>>
    /\ call.stage = "done"
         => /\ Len(call.outcomes) = 1
            /\ Len(wire) <= 1
            /\ Len(wire) = 0 <=> (~Outcome.ok /\ Outcome.err.text \in LocalErrors)

\* browseArchive without a configured archive has ended in one thrown error
\* and no request; elsewhere a call has ended with its one request answered
C19_Witness ==
    /\ call.stage = "done"
    /\ call.tool = "browseArchive"
    /\ \/ /\ RejectedLocally({"NIA_EPSTEIN_ARCHIVE_SOURCES not configured"})
          /\ call.args.repoId = <<>>
       \/ /\ Len(wire) = 1
          /\ Outcome.ok

\* C20: every request sent to the search API carries Authorization: Bearer
\* <NIA_API_KEY> and the JSON content type; with NIA_API_KEY unset the tool
\* throws and sends nothing, and a call that reaches niaFetch throws the
\* credential error.
C20_BearerAndJson ==
    /\ \A i \in 1 .. Len(wire) :
           /\ env.apiKey # <<>>
           /\ wire[i].headers["Authorization"] = <<"Bearer ", env.apiKey[1]>>
           /\ wire[i].headers["Content-Type"] = <<"application/json">>
    /\ call.stage # "idle" /\ env.apiKey = <<>>
         => /\ RejectedLocally(LocalErrors)
            /\ WellFormed /\ Execute(call.tool, Validate(call.tool, call.args).val, env).ok
                 => Outcome.err.text = "NIA_API_KEY environment variable is not set"

\* a search with sources configured and no credential has thrown
C20_Witness ==
    /\ call.stage = "done"
    /\ call.tool = "searchArchive"
    /\ env.apiKey = <<>>
    /\ env.archive # <<>>
    /\ RejectedLocally({"NIA_API_KEY environment variable is not set"})

\* the tools with an optional source identifier, by the list they default to
DocIdTools ==
    {"browseChromiumDocs", "listChromiumDocsDirectory", "readChromiumDoc",
     "grepChromiumDocs"}

RepoIdTools ==
    {"browseArchive", "readArchiveDoc", "grepArchive", "epstein/getSourceContent"}

\* the identifier the call was given: none (<<>>) if it is absent or ""
GivenId ==
    LET id == IF call.tool \in DocIdTools THEN call.args.sourceId
              ELSE call.args.repoId
    IN IF id = <<(<<>>)>> THEN <<>> ELSE id

\* the configured list the tool of the call defaults to
DefaultList ==
    IF call.tool \in DocIdTools THEN getChromiumDocsSources(env)
    ELSE getEpsteinArchiveSources(env)

\* C21: a tool with an optional source identifier, called without one,
\* targets the first entry of its configured source list, and with that list
\* empty throws a configuration error and sends nothing; an identifier that
\* is supplied is used as given.
C21_DefaultSource ==
    WellFormed /\ call.tool \in DocIdTools \cup RepoIdTools
        => (/\ \A i \in 1 .. Len(wire) :
                   wire[i].endpoint.id
                       = IF GivenId # <<>> THEN GivenId ELSE <<DefaultList[1]>>
            /\ GivenId = <<>> /\ DefaultList = <<>>
                 => RejectedLocally({"CHROMIUM_DOCS_SOURCES not configured",
                                     "NIA_EPSTEIN_ARCHIVE_SOURCES not configured"}))

\* browseArchive without an identifier has asked for the tree of the first
\* of two configured archive sources
C21_Witness ==
    /\ call.stage = "awaiting"
    /\ call.tool = "browseArchive"
    /\ call.args.repoId = <<>>
    /\ getEpsteinArchiveSources(env) = <<Arch1, Arch2>>
    /\ wire[1].endpoint.id = <<Arch1>>

\* the composite identifier of a subtree short name
Composite(s) == <<"chromium", "chromium", "tree", "main">> \o s

\* C22: a subtree short name s resolves to chromium/chromium/tree/main/<s>,
\* grepChromiumCode taking 'base' when it is given none; the repositories
\* searchChromium sends for a non-empty subtrees list are exactly the images
\* of the requested subtrees, in order, and all are configured repositories.
C22_ScopeResolution ==
    WellFormed
        => (/\ call.tool = "searchChromium" /\ call.args.subtrees # <<>>
                    /\ call.args.subtrees[1] # <<>>
                 => \A i \in 1 .. Len(wire) :
                        /\ "repositories" \in DOMAIN wire[i].body[1]
                        /\ wire[i].body[1].repositories
                               = [j \in 1 .. Len(call.args.subtrees[1]) |->
                                     Composite(call.args.subtrees[1][j])]
                        /\ \A j \in 1 .. Len(wire[i].body[1].repositories) :
                               Includes(getChromiumRepoSources(env),
                                        wire[i].body[1].repositories[j])
            /\ call.tool = "grepChromiumCode"
                 => \A i \in 1 .. Len(wire) :
                        wire[i].endpoint.id
                            = <<Composite(IF call.args.subtree \in {<<>>, <<(<<>>)>>}
                                          THEN <<"base">>
                                          ELSE call.args.subtree[1])>>)

\* searchChromium scoped to the configured subtree base has sent its request
C22_Witness ==
    /\ call.stage = "awaiting"
    /\ call.tool = "searchChromium"
    /\ call.args.subtrees = <<(<<(<<"base">>)>>)>>
    /\ wire[1].body[1].repositories = <<Composite(<<"base">>)>>

\* per tool, the body fields of the optional arguments named by C23 and the
\* argument each comes from
OptionalFields(tool) ==
    CASE tool \in GrepTools -> [A |-> "linesAfter", B |-> "linesBefore", path |-> "path"]
      [] tool \in {"chromium/webSearch", "naval/webSearch"} -> [category |-> "category"]
      [] tool = "epstein/webSearch" ->
             [category |-> "category", days_back |-> "daysBack",
              find_similar_to |-> "findSimilarTo"]
      [] tool \in {"chromium/getSourceContent", "naval/getSourceContent"} ->
             [metadata |-> "metadata"]
      [] OTHER -> [none |-> "none"]

\* C23 as first stated: in every grep, web-search and source-content request
\* body, the field of an optional argument (A, B, category, days_back,
\* find_similar_to, metadata, path filter) is present only if the caller
\* supplied a value.
C23_OptionalFieldsOnlyIfSupplied ==
    call.stage # "idle"
        => \A i \in 1 .. Len(wire) :
               wire[i].body # <<>>
                   => \A f \in DOMAIN OptionalFields(call.tool) :
                          f \in DOMAIN wire[i].body[1]
                              => call.args[OptionalFields(call.tool)[f]] # <<>>

\* C23: the same, except that grepEssays always sends path: the value
\* supplied, or the schema default "/" when none is.
C23_UndefinedOmitted ==
    call.stage # "idle"
        => \A i \in 1 .. Len(wire) :
               wire[i].body # <<>>
                   => /\ \A f \in DOMAIN OptionalFields(call.tool) :
                             f \in DOMAIN wire[i].body[1]
                                 /\ ~(call.tool = "grepEssays" /\ f = "path")
                                 => call.args[OptionalFields(call.tool)[f]] # <<>>
                      /\ call.tool = "grepEssays"
                           => /\ "path" \in DOMAIN wire[i].body[1]
                              /\ wire[i].body[1].path
                                     = IF call.args.path = <<>> THEN "/"
                                       ELSE call.args.path[1]

\* grepArchive given linesAfter and neither linesBefore nor path has sent A
\* without B and without path
C23_Witness ==
    /\ call.stage = "awaiting"
    /\ call.tool = "grepArchive"
    /\ call.args.linesAfter = <<20>>
    /\ call.args.path = <<>>
    /\ wire[1].body[1].A = 20
    /\ "B" \notin DOMAIN wire[1].body[1]
    /\ "path" \notin DOMAIN wire[1].body[1]

\* C24: in every interleaving of handlers in flight no handler is suspended
\* between reading and writing an entry; the requests admitted for a key in
\* one window never exceed the ceiling, and the stored count of the window is
\* the number admitted (no increment is lost).
C24_AdmissionAtomic ==
    /\ \A h \in Handlers : handlers[h].seen = <<>>
    /\ \A k \in Keys :
           /\ win[k].n <= MAX_REQUESTS_PER_WINDOW
           /\ k \in DOMAIN rateLimitMap /\ rateLimitMap[k].resetAt = win[k].resetAt
                => rateLimitMap[k].count = win[k].n

\* two admitted requests of one key are suspended at an await while the
\* window of that key is full
C24_Witness ==
    /\ \A h \in Handlers : handlers[h].pc > 1 /\ handlers[h].ip = "unknown"
    /\ win["unknown"].n = MAX_REQUESTS_PER_WINDOW
    /\ rateLimitMap["unknown"].count = MAX_REQUESTS_PER_WINDOW
    /\ rateLimitMap["unknown"].resetAt = win["unknown"].resetAt

\* the list C25 assigns to the sourceType of the call ('all' when absent)
ListFor(sourceType) ==
    IF sourceType = <<"archive">> THEN getEpsteinArchiveSources(env)
    ELSE IF sourceType = <<"biographical">> THEN getEpsteinBiographicalSources(env)
    ELSE getEpsteinArchiveSources(env) \o getEpsteinBiographicalSources(env)

\* C25: searchArchive selects its repositories by sourceType: 'archive' the
\* archive sources, 'biographical' the biographical sources, 'all' (the
\* default) the archive sources followed by the biographical ones; with the
\* selected list empty it throws before any request, otherwise the request
\* carries exactly that list with search_mode 'repositories'.
C25_SearchArchiveSelection ==
    WellFormed /\ call.tool = "searchArchive"
        => (/\ ListFor(call.args.sourceType) = <<>>
                 => RejectedLocally({"No Epstein sources configured. Check your .env"})
            /\ \A i \in 1 .. Len(wire) :
                   /\ ListFor(call.args.sourceType) # <<>>
                   /\ wire[i].body[1].repositories = ListFor(call.args.sourceType)
                   /\ wire[i].body[1].search_mode = "repositories"
            /\ ListFor(call.args.sourceType) # <<>> /\ TruthyStr(env.apiKey)
                 => Len(wire) = 1)

\* searchArchive without a sourceType has sent the two archive sources
\* followed by the biographical source
C25_Witness ==
    /\ call.stage = "awaiting"
    /\ call.tool = "searchArchive"
    /\ call.args.sourceType = <<>>
    /\ wire[1].body[1].repositories = <<Arch1, Arch2, Bio1>>

\* C26: a storage write that fails never blocks the dismissal. Once "Click to
\* skip" has been clicked, whether or not localStorage.setItem throws, the
\* splash is fading and the callback that hides it and calls onComplete is
\* pending, or it has run: onComplete was called and the splash is off the page.
C26_DismissNeverBlocked ==
    splash.dismissed > 0 =>
        /\ splash.isFading
        /\ \/ \E timer \in splash.timers :
                 timer.op = "complete" /\ timer.at <= splash.t + DismissDelayMs
           \/ splash.completed > 0 /\ ~Rendered(splash)

\* the splash was dismissed with a storage that throws, and the dismissal went
\* through: nothing cached, onComplete called, the splash hidden
C26_Witness ==
    /\ splash.dismissed > 0
    /\ splash.storage.throws
    /\ splash.completed > 0
    /\ ~splash.isVisible
    /\ ~Rendered(splash)

\* C30: the phase only moves forward: once it has been "epstein" it is
\* "epstein", for every timing of the mount timers and of a click on "skip".
C30_PhaseOnlyForward ==
    splash.wasEpstein => splash.phase = "epstein"

\* C27: the sweep is transparent: given the same calls at the same clock
\* values, the limiter and the limiter without the sweep return the same
\* decision (allowed, remaining, resetAt) at every call.
C27_SweepTransparent ==
    last.called =>
        /\ refLast.called
        /\ refLast.ip = last.ip
        /\ last.ret = refLast.ret

\* a call whose sweep deleted the caller's own expired entry and another
\* one, so that the two tables differ, and the two decisions are the same
C27_Witness ==
    /\ last.called
    /\ last.swept
    /\ last.ip \in last.deleted
    /\ Cardinality(last.deleted) > 1
    /\ rateLimitMap # refMap
    /\ last.ret = refLast.ret

\* the allowed calls for the observed key made at a time in lo .. hi
AdmittedIn(lo, hi) ==
    Cardinality({i \in DOMAIN admitted : lo <= admitted[i] /\ admitted[i] <= hi})

\* C28: the burst bound of the fixed window. For every key (obs is any of
\* them), every interval of length RATE_LIMIT_WINDOW_MS holds at most
\* 2 x MAX_REQUESTS_PER_WINDOW allowed calls (it is enough to look at the
\* intervals that end at an allowed call), and the window of the key's entry,
\* from its creation to its resetAt, holds at most MAX_REQUESTS_PER_WINDOW.
C28_BurstBound ==
    /\ \A i \in DOMAIN admitted :
           AdmittedIn(admitted[i] - RATE_LIMIT_WINDOW_MS, admitted[i])
               <= 2 * MAX_REQUESTS_PER_WINDOW
    /\ KeyOf(obs) \in DOMAIN rateLimitMap =>
           AdmittedIn(rateLimitMap[KeyOf(obs)].resetAt - RATE_LIMIT_WINDOW_MS,
                      rateLimitMap[KeyOf(obs)].resetAt)
               <= MAX_REQUESTS_PER_WINDOW

\* a burst across two windows of the key: the second window is full, and the
\* interval of one window length that ends at its last allowed call holds
\* more than MAX_REQUESTS_PER_WINDOW allowed calls
C28_Witness ==
    /\ last.called /\ last.ip = obs /\ last.ret.allowed
    /\ last.ret.remaining = 0
    /\ AdmittedIn(rateLimitMap[KeyOf(obs)].resetAt - RATE_LIMIT_WINDOW_MS,
                  rateLimitMap[KeyOf(obs)].resetAt) = MAX_REQUESTS_PER_WINDOW
    /\ AdmittedIn(last.t2 - RATE_LIMIT_WINDOW_MS, last.t2)
           > MAX_REQUESTS_PER_WINDOW

\* C29: after a call checkRateLimit(k) whose check read the clock at now, the
\* table has an entry for k with 1 <= count <= MAX_REQUESTS_PER_WINDOW, the
\* returned resetAt is the entry's, now <= resetAt <= now +
\* RATE_LIMIT_WINDOW_MS, and an allowed call returned remaining =
\* MAX_REQUESTS_PER_WINDOW - count.
C29_StateAfterCall ==
    last.called =>
        LET k == KeyOf(last.ip)
        IN /\ k \in DOMAIN rateLimitMap
           /\ 1 <= rateLimitMap[k].count
           /\ rateLimitMap[k].count <= MAX_REQUESTS_PER_WINDOW
           /\ last.ret.resetAt = rateLimitMap[k].resetAt
           /\ last.t2 <= rateLimitMap[k].resetAt
           /\ rateLimitMap[k].resetAt <= last.t2 + RATE_LIMIT_WINDOW_MS
           /\ last.ret.allowed =>
                  last.ret.remaining = MAX_REQUESTS_PER_WINDOW - rateLimitMap[k].count

\* the last allowed call of a window, made at the very end of the window:
\* the entry is full, remaining is 0 and now = resetAt
C29_Witness ==
    /\ last.called
    /\ last.ret.allowed
    /\ last.ret.remaining = 0
    /\ rateLimitMap[KeyOf(last.ip)].count = MAX_REQUESTS_PER_WINDOW
    /\ last.t2 = rateLimitMap[KeyOf(last.ip)].resetAt
    /\ last.t1 < last.t2
====
